---- MODULE Spec2Model ----
(***************************************************************************)
(* Cool Drive Audit (audit.py): the orchestrator of one audit run, the     *)
(* console formatter format_file_output, API validation and the            *)
(* spreadsheet report builder.                                             *)
(*                                                                         *)
(* Strings are sequences of string pieces.  E-mail addresses are spelled   *)
(* one character per piece, because the code splits and slices them.       *)
(* Python dicts with optional keys are functions whose DOMAIN is the set   *)
(* of keys present; the ordered dict sheets_data is a sequence of          *)
(* [key, files] entries in insertion order.                                *)
(***************************************************************************)
EXTENDS Integers, Sequences, FiniteSets, TLC

\* Bounds of the model.
MaxUsers == 2
MaxDrives == 1
MaxFiles == 2
MaxFields == 3

\* user_email.split('@')[0][:30]
TitleLimit == 30

VARIABLES
    args,               \* parsed command line: fields, no_html, sheets, shared_drives_only
    pc,                 \* position of __main__
    exit_code,          \* process exit status; -1 while the process runs
    calls,              \* collaborator calls made so far, in order, with their outcome
    errors,             \* contexts passed to log_error, in order
    template_loaded,    \* email_template.html was read
    outdir_created,     \* os.mkdir(outdir) succeeded
    files_written,      \* HTML pages written into outdir (by source key)
    users,              \* result of common.get_domain_users()
    shared_drives,      \* result of common.get_shared_drives()
    shared_drive_files, \* accumulated shared drive files
    total_files,        \* running total
    sheets_data,        \* report index: ordered dict source key -> files
    i,                  \* loop position in the current for loop
    console,            \* file lines printed, in order
    printed_total,      \* total printed on the console; -1 before it is printed
    tab_titles,         \* sheet titles requested from the Sheets API, in order
    dashboard,          \* rows written to the Dashboard tab (<<>> before)
    fmt_file,           \* format_file_output: file argument
    fmt_fields,         \* format_file_output: fields argument
    fmt_out             \* format_file_output: result

vars == <<args, pc, exit_code, calls, errors, template_loaded, outdir_created,
          files_written, users, shared_drives, shared_drive_files, total_files,
          sheets_data, i, console, printed_total, tab_titles, dashboard,
          fmt_file, fmt_fields, fmt_out>>

-----------------------------------------------------------------------------
\* Generic helpers

Range(s) == {s[k] : k \in 1..Len(s)}

Min(a, b) == IF a < b THEN a ELSE b

\* dict.get(key, default)
Get(d, key, default) == IF key \in DOMAIN d THEN d[key] ELSE default

\* sep.join(parts)
RECURSIVE Join(_, _)
Join(parts, sep) ==
    IF parts = <<>> THEN <<>>
    ELSE IF Len(parts) = 1 THEN parts[1]
    ELSE parts[1] \o sep \o Join(Tail(parts), sep)

\* s.split(sep)[0] for a one-character separator
RECURSIVE SplitFirst(_, _)
SplitFirst(s, sep) ==
    IF s = <<>> THEN <<>>
    ELSE IF Head(s) = sep THEN <<>>
    ELSE <<Head(s)>> \o SplitFirst(Tail(s), sep)

\* s[:n]
Slice(s, n) == SubSeq(s, 1, Min(n, Len(s)))

\* the k-th smallest element of a set of numbers
Kth(S, k) == CHOOSE x \in S : Cardinality({y \in S : y < x}) = k - 1

-----------------------------------------------------------------------------
\* log_error(error, context): appends an entry to errors.txt; never raises
log_error(log, context) == Append(log, context)

Call(op, arg, ok) == [op |-> op, arg |-> arg, ok |-> ok]

-----------------------------------------------------------------------------
\* format_file_output(file, fields)

SEP == " | "

\* variant: the suffix follows the drive name instead of the tag
NameFieldByDriveName(file) ==
    IF "sharedDriveName" \in DOMAIN file
    THEN file["name"] \o <<" (Shared Drive: ">> \o file["sharedDriveName"] \o <<")">>
    ELSE file["name"]

NameField(file) ==
    IF Get(file, "isSharedDriveFile", FALSE) = TRUE
    THEN file["name"] \o <<" (Shared Drive: ">> \o file["sharedDriveName"] \o <<")">>
    ELSE file["name"]

FieldText(file, field) ==
    IF field = "name" THEN NameField(file)
    ELSE IF field = "link" THEN file["webViewLink"]
    ELSE IF field = "id" THEN file["id"]
    ELSE Get(file, "modifiedTime", <<"N/A">>)

\* variant: one part per entry of the selection, in selection order
format_file_output_in_selection_order(file, fields) ==
    Join([k \in 1..Len(fields) |-> FieldText(file, fields[k])], <<" | ">>)

format_file_output(file, fields) ==
    LET p1 == IF "name" \in Range(fields) THEN <<NameField(file)>> ELSE <<>>
        p2 == IF "link" \in Range(fields) THEN Append(p1, file["webViewLink"]) ELSE p1
        p3 == IF "id" \in Range(fields) THEN Append(p2, file["id"]) ELSE p2
        p4 == IF "modified" \in Range(fields)
              THEN Append(p3, Get(file, "modifiedTime", <<"N/A">>)) ELSE p3
    IN Join(p4, <<SEP>>)

-----------------------------------------------------------------------------
\* The domain the run audits: what the collaborators in `common` can return

AT == "@"

DomainName == <<"x", ".", "i", "o">>

LongLocal == [k \in 1..TitleLimit |-> "a"]

\* users of the domain, in the order the Directory API lists them
UserPool ==
    << [primaryEmail |-> <<"b", "o", "b">> \o <<AT>> \o DomainName,
        name |-> [givenName |-> <<"Bob">>]],
       [primaryEmail |-> LongLocal \o <<"1">> \o <<AT>> \o DomainName,
        name |-> [givenName |-> <<"Ann">>]],
       [primaryEmail |-> LongLocal \o <<"2">> \o <<AT>> \o DomainName,
        name |-> [familyName |-> <<"Lee">>]] >>

DrivePool ==
    << [id |-> <<"drive-1">>, name |-> <<"Team A">>],
       [id |-> <<"drive-2">>, name |-> <<"Team B">>],
       [id |-> <<"drive-3">>, name |-> <<"Team C">>] >>

\* the sub-lists of a pool with at most n entries, in pool order
SubLists(pool, n) ==
    { [k \in 1..Cardinality(S) |-> pool[Kth(S, k)]] :
        S \in {T \in SUBSET (1..Len(pool)) : Cardinality(T) <= n} }

FileNames == <<"Doc1", "Doc2", "Doc3", "Doc4">>
FileLinks == <<"https://drive/1", "https://drive/2", "https://drive/3", "https://drive/4">>
FileIds == <<"id1", "id2", "id3", "id4">>
ModifiedStamp == <<"2024-01-01T00:00:00Z">>

\* a file record; the first file of every source has no modifiedTime
BaseFile(k) ==
    LET core == [name |-> <<FileNames[k]>>, webViewLink |-> <<FileLinks[k]>>,
                 id |-> <<FileIds[k]>>]
    IN IF k = 1 THEN core ELSE core @@ ("modifiedTime" :> ModifiedStamp)

\* common.get_publicly_shared_files(user_email), n files found
UserFiles(user_email, n) ==
    [k \in 1..n |-> IF k = 1 THEN BaseFile(k)
                    ELSE BaseFile(k) @@ ("isSharedDriveFile" :> FALSE)]

\* common.get_publicly_shared_files_from_shared_drive(id, name), n files found
DriveFiles(drive, n) ==
    [k \in 1..n |-> BaseFile(k) @@ ("isSharedDriveFile" :> TRUE)
                                @@ ("sharedDriveName" :> drive.name)]

\* the --fields selection of the audited runs: -f modified name
FieldChoices == { <<"modified", "name">> }

-----------------------------------------------------------------------------
\* The report index (an insertion-ordered dict)

SHARED_KEY == <<"__SHARED_DRIVES__">>

DictKeys(d) == {d[k].key : k \in 1..Len(d)}

\* d[key] = value
DictSet(d, key, value) ==
    IF key \in DictKeys(d)
    THEN [k \in 1..Len(d) |-> IF d[k].key = key THEN [key |-> key, files |-> value] ELSE d[k]]
    ELSE Append(d, [key |-> key, files |-> value])

\* variant: counts the source, not its files
AddTotalPerSource(total, files) == total + 1

\* total_files += len(files)
AddTotal(total, files) == total + Len(files)

-----------------------------------------------------------------------------
\* create_google_sheets_report(user_data, admin_email)

DASHBOARD == <<"Dashboard">>

SheetTitle(user_email) ==
    IF user_email = SHARED_KEY THEN <<"Shared Drives">>
    ELSE Slice(SplitFirst(user_email, AT), TitleLimit)

\* the entries that get a tab: `if files`
WithFiles(user_data) == SelectSeq(user_data, LAMBDA e : e.files # <<>>)

\* titles of the addSheet requests, in request order
AddSheetTitles(user_data) ==
    [k \in 1..Len(WithFiles(user_data)) |-> SheetTitle(WithFiles(user_data)[k].key)]

\* sum(len(files) for files in user_data.values())
RECURSIVE SumLen(_)
SumLen(user_data) ==
    IF user_data = <<>> THEN 0
    ELSE Len(Head(user_data).files) + SumLen(Tail(user_data))

DashboardTotal(user_data) == SumLen(user_data)

\* the values written to the Dashboard tab
DashboardData(user_data) ==
    [ total_files |-> DashboardTotal(user_data),
      users_with_files |->
          Len(SelectSeq(user_data, LAMBDA e : e.files # <<>> /\ e.key # SHARED_KEY)),
      shared_drive_files |->
          SumLen(SelectSeq(user_data, LAMBDA e : e.key = SHARED_KEY)),
      summary |->
          [k \in 1..Len(WithFiles(user_data)) |->
              [ source |-> IF WithFiles(user_data)[k].key = SHARED_KEY
                           THEN <<"Shared Drives">> ELSE WithFiles(user_data)[k].key,
                count |-> Len(WithFiles(user_data)[k].files),
                sheet |-> SheetTitle(WithFiles(user_data)[k].key) ]] ]

\* The API calls of the builder, in order: 1 create the spreadsheet, 2 rename
\* Sheet1 to Dashboard, 3 add the tabs, 4 write all values.  `failed` is the
\* call that raises (0: none).  The titles requested up to that point:
RequestedTitles(user_data, failed) ==
    IF failed = 1 THEN <<>>
    ELSE IF failed = 2 THEN <<DASHBOARD>>
    ELSE <<DASHBOARD>> \o AddSheetTitles(user_data)

-----------------------------------------------------------------------------
\* validate_apis(use_sheets), from the results of the three API tests

\* variant: each test overwrites the verdict of the one before
AllGoodLastTestWins(admin_ok, drive_ok, sheets_ok, use_sheets) ==
    LET g1 == admin_ok
        g2 == drive_ok
        g3 == IF use_sheets THEN sheets_ok ELSE g2
    IN g3

AllGood(admin_ok, drive_ok, sheets_ok, use_sheets) ==
    LET g1 == IF ~admin_ok THEN FALSE ELSE TRUE
        g2 == IF ~drive_ok THEN FALSE ELSE g1
        g3 == IF use_sheets /\ ~sheets_ok THEN FALSE ELSE g2
    IN g3

-----------------------------------------------------------------------------
\* __main__

Init ==
    /\ args \in [fields : FieldChoices, no_html : BOOLEAN, sheets : BOOLEAN,
                 shared_drives_only : BOOLEAN]
    /\ pc = "validate"
    /\ exit_code = -1
    /\ calls = <<>>
    /\ errors = <<>>
    /\ template_loaded = FALSE
    /\ outdir_created = FALSE
    /\ files_written = {}
    /\ users = <<>>
    /\ shared_drives = <<>>
    /\ shared_drive_files = <<>>
    /\ total_files = 0
    /\ sheets_data = <<>>
    /\ i = 1
    /\ console = <<>>
    /\ printed_total = -1
    /\ tab_titles = <<>>
    /\ dashboard = <<>>
    /\ fmt_file = BaseFile(1)
    /\ fmt_fields = <<"name">>
    /\ fmt_out = <<>>

fmt_vars == <<fmt_file, fmt_fields, fmt_out>>

\* an exception nobody catches: the interpreter prints it and exits with status 1
Uncaught ==
    /\ pc' = "crashed"
    /\ exit_code' = 1

\* lines 352-354: validate_apis(use_sheets=args.sheets), sys.exit(1)
Validate ==
    /\ pc = "validate"
    /\ \E admin_ok \in BOOLEAN, drive_ok \in BOOLEAN, sheets_ok \in BOOLEAN :
        /\ ~args.sheets => sheets_ok
        /\ calls' = calls
             \o << Call("test_admin_api", <<>>, admin_ok),
                   Call("test_drive_api", <<>>, drive_ok) >>
             \o (IF args.sheets THEN <<Call("test_sheets_api", <<>>, sheets_ok)>> ELSE <<>>)
        /\ errors' = errors
             \o (IF admin_ok THEN <<>> ELSE <<<<"Admin SDK Directory API test">>>>)
             \o (IF drive_ok THEN <<>> ELSE <<<<"Google Drive API test">>>>)
             \o (IF args.sheets /\ ~sheets_ok THEN <<<<"Google Sheets API test">>>> ELSE <<>>)
        /\ IF AllGood(admin_ok, drive_ok, sheets_ok, args.sheets)
           THEN pc' = "load_template" /\ exit_code' = exit_code
           ELSE pc' = "exited" /\ exit_code' = 1
    /\ UNCHANGED <<args, template_loaded, outdir_created, files_written, users,
                   shared_drives, shared_drive_files, total_files, sheets_data, i,
                   console, printed_total, tab_titles, dashboard, fmt_vars>>

\* lines 356-358: read email_template.html unless --no-html
LoadTemplate ==
    /\ pc = "load_template"
    /\ IF args.no_html
       THEN /\ pc' = "get_users"
            /\ UNCHANGED <<calls, template_loaded, exit_code>>
       ELSE \E ok \in BOOLEAN :
            /\ calls' = Append(calls, Call("open_template", <<>>, ok))
            /\ template_loaded' = ok
            /\ IF ok THEN pc' = "mkdir" /\ exit_code' = exit_code ELSE Uncaught
    /\ UNCHANGED <<args, errors, outdir_created, files_written, users,
                   shared_drives, shared_drive_files, total_files, sheets_data, i,
                   console, printed_total, tab_titles, dashboard, fmt_vars>>

\* lines 360-361: os.mkdir(outdir)
MakeOutdir ==
    /\ pc = "mkdir"
    /\ \E ok \in BOOLEAN :
        /\ calls' = Append(calls, Call("mkdir", <<>>, ok))
        /\ outdir_created' = ok
        /\ IF ok THEN pc' = "get_users" /\ exit_code' = exit_code ELSE Uncaught
    /\ UNCHANGED <<args, errors, template_loaded, files_written, users,
                   shared_drives, shared_drive_files, total_files, sheets_data, i,
                   console, printed_total, tab_titles, dashboard, fmt_vars>>

\* lines 363-365: users = common.get_domain_users()
GetDomainUsers ==
    /\ pc = "get_users"
    /\ \/ \E us \in SubLists(UserPool, MaxUsers) :
            /\ users' = us
            /\ calls' = Append(calls, Call("get_domain_users", <<>>, TRUE))
            /\ pc' = "get_drives"
            /\ exit_code' = exit_code
       \/ /\ calls' = Append(calls, Call("get_domain_users", <<>>, FALSE))
          /\ users' = users
          /\ Uncaught
    /\ UNCHANGED <<args, errors, template_loaded, outdir_created, files_written,
                   shared_drives, shared_drive_files, total_files, sheets_data, i,
                   console, printed_total, tab_titles, dashboard, fmt_vars>>

\* lines 368-371 and 408-410: shared_drives = common.get_shared_drives()
GetSharedDrives ==
    /\ pc = "get_drives"
    /\ \/ \E ds \in SubLists(DrivePool, MaxDrives) :
            /\ shared_drives' = ds
            /\ calls' = Append(calls, Call("get_shared_drives", <<>>, TRUE))
            /\ errors' = errors
            /\ pc' = "drive_loop"
       \/ /\ calls' = Append(calls, Call("get_shared_drives", <<>>, FALSE))
          /\ errors' = log_error(errors, <<"Processing shared drives">>)
          /\ shared_drives' = shared_drives
          /\ pc' = "user_loop"
    /\ i' = 1
    /\ UNCHANGED <<args, exit_code, template_loaded, outdir_created, files_written,
                   users, shared_drive_files, total_files, sheets_data,
                   console, printed_total, tab_titles, dashboard, fmt_vars>>

\* lines 376-382: the fetch for drive i returns n files
DriveFetchReturns(n) ==
    LET drive == shared_drives[i]
        drive_files == DriveFiles(drive, n)
    IN /\ calls' = Append(calls,
                     Call("get_publicly_shared_files_from_shared_drive", drive.id, TRUE))
       /\ shared_drive_files' =
             IF drive_files # <<>> THEN shared_drive_files \o drive_files
             ELSE shared_drive_files
       /\ console' = console
             \o [k \in 1..Len(drive_files) |-> format_file_output(drive_files[k], args.fields)]
       /\ errors' = errors

\* lines 383-385: the fetch for drive i raises
DriveFetchRaises ==
    LET drive == shared_drives[i]
    IN /\ calls' = Append(calls,
                     Call("get_publicly_shared_files_from_shared_drive", drive.id, FALSE))
       /\ errors' = log_error(errors, <<"Accessing shared drive: ">> \o drive.name)
       /\ UNCHANGED <<shared_drive_files, console>>

\* lines 373-385: one turn of `for drive in shared_drives`
DriveFetch ==
    /\ pc = "drive_loop"
    /\ i <= Len(shared_drives)
    /\ \/ \E n \in 0..MaxFiles : DriveFetchReturns(n)
       \/ DriveFetchRaises
    /\ i' = i + 1
    /\ UNCHANGED <<args, pc, exit_code, template_loaded, outdir_created, files_written,
                   users, shared_drives, total_files, sheets_data,
                   printed_total, tab_titles, dashboard, fmt_vars>>

\* lines 387-410: after the loop, index the shared drive files and write their page
DriveFinish ==
    /\ pc = "drive_loop"
    /\ i > Len(shared_drives)
    /\ IF shared_drive_files # <<>>
       THEN /\ total_files' = AddTotal(total_files, shared_drive_files)
            /\ sheets_data' = DictSet(sheets_data, SHARED_KEY, shared_drive_files)
            /\ IF args.no_html
               THEN UNCHANGED <<calls, files_written, errors>>
               ELSE \E ok \in BOOLEAN :
                    /\ calls' = Append(calls, Call("write_html", SHARED_KEY, ok))
                    /\ IF ok
                       THEN /\ files_written' = files_written \cup {SHARED_KEY}
                            /\ errors' = errors
                       ELSE /\ files_written' = files_written
                            /\ errors' = log_error(errors, <<"Processing shared drives">>)
       ELSE UNCHANGED <<total_files, sheets_data, calls, files_written, errors>>
    /\ pc' = "user_loop"
    /\ i' = 1
    /\ UNCHANGED <<args, exit_code, template_loaded, outdir_created, users,
                   shared_drives, shared_drive_files, console, printed_total,
                   tab_titles, dashboard, fmt_vars>>

\* lines 421 and 431-445: the fetch for user i returns n files
UserFetchReturns(n) ==
    LET user_email == users[i].primaryEmail
        user_name == Get(users[i].name, "givenName", user_email)
        public_files == UserFiles(user_email, n)
        fetched == Call("get_publicly_shared_files", user_email, TRUE)
    IN IF public_files # <<>>
       THEN /\ total_files' = AddTotal(total_files, public_files)
            /\ sheets_data' = DictSet(sheets_data, user_email, public_files)
            /\ console' = console
                  \o [k \in 1..Len(public_files) |->
                        format_file_output(public_files[k], args.fields)]
            /\ IF args.no_html
               THEN /\ calls' = Append(calls, fetched)
                    /\ UNCHANGED <<files_written, pc, exit_code>>
               ELSE \E ok \in BOOLEAN :
                    /\ calls' = calls \o <<fetched, Call("write_html", user_email, ok)>>
                    /\ IF ok
                       THEN /\ files_written' = files_written \cup {user_email}
                            /\ UNCHANGED <<pc, exit_code>>
                       ELSE /\ files_written' = files_written
                            /\ Uncaught
       ELSE /\ calls' = Append(calls, fetched)
            /\ UNCHANGED <<total_files, sheets_data, console, files_written, pc, exit_code>>

\* variant: no handler around the fetch, the exception leaves the loop
UserFetchRaisesUnhandled ==
    LET user_email == users[i].primaryEmail
    IN /\ calls' = Append(calls, Call("get_publicly_shared_files", user_email, FALSE))
       /\ errors' = errors
       /\ UNCHANGED <<total_files, sheets_data, console, files_written>>
       /\ Uncaught

\* lines 422-429: the fetch for user i raises
UserFetchRaises ==
    LET user_email == users[i].primaryEmail
    IN /\ calls' = Append(calls, Call("get_publicly_shared_files", user_email, FALSE))
       /\ errors' = log_error(errors, <<"Accessing files for user: ">> \o user_email)
       /\ UNCHANGED <<total_files, sheets_data, console, files_written, pc, exit_code>>

\* lines 412-445: one turn of `for user in users`
UserFetch ==
    /\ pc = "user_loop"
    /\ ~args.shared_drives_only
    /\ i <= Len(users)
    /\ \/ \E n \in 0..MaxFiles : UserFetchReturns(n) /\ errors' = errors
       \/ UserFetchRaises
    /\ i' = i + 1
    /\ UNCHANGED <<args, template_loaded, outdir_created, users, shared_drives,
                   shared_drive_files, printed_total, tab_titles, dashboard, fmt_vars>>

\* lines 446-454: print the total
PrintTotals ==
    /\ pc = "user_loop"
    /\ args.shared_drives_only \/ i > Len(users)
    /\ printed_total' = total_files
    /\ pc' = IF args.sheets /\ sheets_data # <<>> THEN "sheets" ELSE "finish"
    /\ UNCHANGED <<args, exit_code, calls, errors, template_loaded, outdir_created,
                   files_written, users, shared_drives, shared_drive_files, total_files,
                   sheets_data, i, console, tab_titles, dashboard, fmt_vars>>

\* lines 455-465: create_google_sheets_report(sheets_data, settings.ADMIN_USERNAME)
CreateSheets ==
    /\ pc = "sheets"
    /\ \E failed \in 0..4 :
        /\ calls' = Append(calls, Call("create_google_sheets_report", <<>>, failed = 0))
        /\ tab_titles' = RequestedTitles(sheets_data, failed)
        /\ dashboard' = IF failed = 0 THEN <<DashboardData(sheets_data)>> ELSE <<>>
        /\ errors' = IF failed = 0 THEN errors
                     ELSE log_error(errors, <<"Creating Google Sheets report">>)
    /\ pc' = "finish"
    /\ UNCHANGED <<args, exit_code, template_loaded, outdir_created, files_written,
                   users, shared_drives, shared_drive_files, total_files, sheets_data,
                   i, console, printed_total, fmt_vars>>

\* lines 467-472: the closing messages; the script ends and the exit status is 0
Finish ==
    /\ pc = "finish"
    /\ pc' = "done"
    /\ exit_code' = 0
    /\ UNCHANGED <<args, calls, errors, template_loaded, outdir_created, files_written,
                   users, shared_drives, shared_drive_files, total_files, sheets_data,
                   i, console, printed_total, tab_titles, dashboard, fmt_vars>>

Next ==
    \/ Validate
    \/ LoadTemplate
    \/ MakeOutdir
    \/ GetDomainUsers
    \/ GetSharedDrives
    \/ DriveFetch
    \/ DriveFinish
    \/ UserFetch
    \/ PrintTotals
    \/ CreateSheets
    \/ Finish

Spec == Init /\ [][Next]_vars

-----------------------------------------------------------------------------
\* format_file_output on its own: every file record and field selection

FIELDS == {"name", "link", "id", "modified"}

Selections == UNION { [1..n -> FIELDS] : n \in 1..MaxFields }

NoKey == <<>>

\* file records: modifiedTime, isSharedDriveFile and sharedDriveName are optional;
\* a record tagged as a shared drive file carries its drive name
FormatFiles ==
    { f \in { [name |-> nm, webViewLink |-> <<"https://drive/1">>, id |-> <<"id1">>]
                @@ mod @@ tag @@ drv :
                nm \in {<<"Doc1">>, <<"Plan", " 2024">>},
                mod \in {NoKey, "modifiedTime" :> ModifiedStamp},
                tag \in {NoKey, "isSharedDriveFile" :> FALSE, "isSharedDriveFile" :> TRUE},
                drv \in {NoKey, "sharedDriveName" :> <<"Team A">>} } :
        Get(f, "isSharedDriveFile", FALSE) = TRUE => "sharedDriveName" \in DOMAIN f }

InitFormat ==
    /\ fmt_file \in FormatFiles
    /\ fmt_fields \in Selections
    /\ fmt_out = <<>>
    /\ pc = "format"
    /\ args = [fields |-> fmt_fields, no_html |-> TRUE, sheets |-> FALSE,
               shared_drives_only |-> FALSE]
    /\ exit_code = -1
    /\ calls = <<>>
    /\ errors = <<>>
    /\ template_loaded = FALSE
    /\ outdir_created = FALSE
    /\ files_written = {}
    /\ users = <<>>
    /\ shared_drives = <<>>
    /\ shared_drive_files = <<>>
    /\ total_files = 0
    /\ sheets_data = <<>>
    /\ i = 1
    /\ console = <<>>
    /\ printed_total = -1
    /\ tab_titles = <<>>
    /\ dashboard = <<>>

\* print("    {}".format(format_file_output(file, args.fields)))
Format ==
    /\ pc = "format"
    /\ fmt_out' = format_file_output(fmt_file, fmt_fields)
    /\ console' = Append(console, fmt_out')
    /\ pc' = "formatted"
    /\ UNCHANGED <<args, exit_code, calls, errors, template_loaded, outdir_created,
                   files_written, users, shared_drives, shared_drive_files, total_files,
                   sheets_data, i, printed_total, tab_titles, dashboard,
                   fmt_file, fmt_fields>>

NextFormat == Format

SpecFormat == InitFormat /\ [][NextFormat]_vars

-----------------------------------------------------------------------------
\* Properties

TestOps == {"test_admin_api", "test_drive_api", "test_sheets_api"}
FetchOps == {"get_publicly_shared_files_from_shared_drive", "get_publicly_shared_files"}
WorkOps == {"mkdir", "get_domain_users", "get_shared_drives"} \cup FetchOps
WriteOps == {"write_html", "create_google_sheets_report"}

Ended == pc \in {"done", "exited", "crashed"}

\* a required API test failed (test_sheets_api is only run with --sheets)
ValidationFailed ==
    \E k \in 1..Len(calls) : calls[k].op \in TestOps /\ ~calls[k].ok

\* C1: once a required API validation has failed, the process has exited with a
\* non-zero code, and it has created no output directory, enumerated no users
\* or shared drives, fetched no files and written no page.
C1_FailFast ==
    ValidationFailed =>
        /\ pc = "exited"
        /\ exit_code # 0 /\ exit_code # -1
        /\ ~outdir_created
        /\ files_written = {}
        /\ \A k \in 1..Len(calls) : calls[k].op \notin WorkOps

\* a run with --sheets whose only failed validation is the Sheets API
C1_Witness ==
    /\ pc = "exited"
    /\ args.sheets /\ ~args.no_html
    /\ Len(calls) = 3
    /\ calls[1].ok /\ calls[2].ok /\ ~calls[3].ok

\* C2: with --shared-drives-only neither common.get_domain_users nor
\* common.get_publicly_shared_files is ever called.
C2_NoUserWork ==
    args.shared_drives_only =>
        \A k \in 1..Len(calls) :
            calls[k].op \notin {"get_domain_users", "get_publicly_shared_files"}

\* the arguments of the calls of one operation, in call order
ArgsOf(op) ==
    LET cs == SelectSeq(calls, LAMBDA c : c.op = op)
    IN [k \in 1..Len(cs) |-> cs[k].arg]

\* every enumerated source was fetched, once, in enumeration order
AllSourcesFetched ==
    /\ ArgsOf("get_publicly_shared_files_from_shared_drive")
         = [k \in 1..Len(shared_drives) |-> shared_drives[k].id]
    /\ ~args.shared_drives_only =>
         ArgsOf("get_publicly_shared_files")
           = [k \in 1..Len(users) |-> users[k].primaryEmail]

\* a source whose fetch raised has no files in the report index
FailedSourcesAbsent ==
    \A k \in 1..Len(calls) :
        (calls[k].op \in FetchOps /\ ~calls[k].ok) =>
            /\ calls[k].arg \notin DictKeys(sheets_data)
            /\ \A d \in 1..Len(shared_drives) :
                 shared_drives[d].id = calls[k].arg =>
                    \A f \in 1..Len(shared_drive_files) :
                        shared_drive_files[f]["sharedDriveName"] # shared_drives[d].name

\* the step just made a fetch that raised
FetchRaisedStep ==
    /\ Len(calls') = Len(calls) + 1
    /\ calls'[Len(calls')].op \in FetchOps
    /\ ~calls'[Len(calls')].ok

C4_ExitCode ==
    Ended =>
        /\ exit_code \in {0, 1}
        /\ exit_code = 1 <=> ValidationFailed

\* the step just made a report write that failed
WriteFailedStep ==
    /\ Len(calls') > Len(calls)
    /\ calls'[Len(calls')].op \in WriteOps
    /\ ~calls'[Len(calls')].ok

\* C5: a failed report write (shared drives page, user page, spreadsheet) is
\* logged and does not abort the run; the pages already written stay.
C5_WriteErrorIsolated ==
    [][ WriteFailedStep =>
            /\ Len(errors') = Len(errors) + 1
            /\ pc' # "crashed"
            /\ exit_code' = exit_code
            /\ files_written' = files_written ]_vars

\* the phase of a collaborator call (0: not one of the ordered calls)
Phase(op) ==
    IF op \in TestOps THEN 1
    ELSE IF op \in {"get_shared_drives", "get_publicly_shared_files_from_shared_drive"} THEN 2
    ELSE IF op \in {"get_domain_users", "get_publicly_shared_files"} THEN 3
    ELSE IF op = "create_google_sheets_report" THEN 4
    ELSE 0

\* C6: validation, then shared drive enumeration and fetches, then user
\* enumeration and fetches, then the spreadsheet build: no call of a later
\* phase precedes a call of an earlier phase.
C6_PhaseOrder ==
    \A j, k \in 1..Len(calls) :
        (j < k /\ Phase(calls[j].op) > 0 /\ Phase(calls[k].op) > 0) =>
            Phase(calls[j].op) <= Phase(calls[k].op)

\* the position of the first "@" of an e-mail address
AtPos(email) == CHOOSE n \in 1..Len(email) :
    email[n] = AT /\ \A m \in 1..(n - 1) : email[m] # AT

\* C7: every user tab title is the local part of the user's e-mail truncated to
\* 30 characters, and the tab titles requested in a run are pairwise distinct.
C7_TabTitles ==
    /\ Len(tab_titles) > 1 =>
         \A k \in 1..Len(sheets_data) :
            LET email == sheets_data[k].key
                title == tab_titles[k + 1]
            IN email # SHARED_KEY =>
                 /\ Len(title) = Min(TitleLimit, AtPos(email) - 1)
                 /\ \A m \in 1..Len(title) : title[m] = email[m]
    /\ \A j, k \in 1..Len(tab_titles) : j # k => tab_titles[j] # tab_titles[k]

\* the number of files in the report index, counted one by one
IndexedFiles ==
    Cardinality({ <<k, m>> \in (1..Len(sheets_data)) \X (1..(MaxFiles * (MaxDrives + 1))) :
                    m <= Len(sheets_data[k].files) })

\* C8: the running total always equals the number of files in the report
\* index; the total printed on the console and the total written to the
\* Dashboard tab are that number.
C8_Totals ==
    /\ total_files = IndexedFiles
    /\ printed_total # -1 => printed_total = IndexedFiles
    /\ dashboard # <<>> =>
         /\ dashboard[1].total_files = IndexedFiles
         /\ dashboard[1].total_files = printed_total

\* a Dashboard written after a failed fetch, with shared drive and user files
C8_Witness ==
    /\ dashboard # <<>>
    /\ dashboard[1].total_files >= 3
    /\ SHARED_KEY \in DictKeys(sheets_data)
    /\ Len(sheets_data) >= 2
    /\ \E k \in 1..Len(calls) : calls[k].op \in FetchOps /\ ~calls[k].ok

FieldOrder == <<"name", "link", "id", "modified">>

\* the parts of a string between its separator pieces
RECURSIVE SplitOn(_, _)
SplitOn(s, sep) ==
    IF \A n \in 1..Len(s) : s[n] # sep THEN <<s>>
    ELSE LET n == CHOOSE x \in 1..Len(s) : s[x] = sep /\ \A y \in 1..(x - 1) : s[y] # sep
         IN <<SubSeq(s, 1, n - 1)>> \o SplitOn(SubSeq(s, n + 1, Len(s)), sep)

\* C9: the output of format_file_output is the selected fields, each once,
\* joined by " | ", in the order name, link, id, modified whatever the order
\* or repetition in the selection; a missing modifiedTime reads N/A.
C9_FormatFields ==
    pc = "formatted" =>
        LET sel == SelectSeq(FieldOrder, LAMBDA f : \E n \in 1..Len(fmt_fields) : fmt_fields[n] = f)
            parts == SplitOn(fmt_out, " | ")
        IN /\ Len(parts) = Len(sel)
           /\ \A k \in 1..Len(sel) :
                /\ sel[k] = "name" =>
                     SubSeq(parts[k], 1, Len(fmt_file["name"])) = fmt_file["name"]
                /\ sel[k] = "link" => parts[k] = fmt_file["webViewLink"]
                /\ sel[k] = "id" => parts[k] = fmt_file["id"]
                /\ sel[k] = "modified" =>
                     parts[k] = IF "modifiedTime" \in DOMAIN fmt_file
                                THEN fmt_file["modifiedTime"] ELSE <<"N/A">>

\* `-f modified name modified` on a file without modifiedTime prints Doc1 | N/A
C9_Witness ==
    /\ pc = "formatted"
    /\ fmt_fields = <<"modified", "name", "modified">>
    /\ "modifiedTime" \notin DOMAIN fmt_file
    /\ fmt_out = <<"Doc1", " | ", "N/A">>

Tagged(file) == "isSharedDriveFile" \in DOMAIN file /\ file["isSharedDriveFile"] = TRUE

\* C10: with name selected, the name field ends in " (Shared Drive: <drive
\* name>)" exactly when the record is tagged isSharedDriveFile; the name field
\* of an untagged record is its name, unchanged, also when it has a
\* sharedDriveName.
C10_DriveSuffix ==
    (pc = "formatted" /\ \E n \in 1..Len(fmt_fields) : fmt_fields[n] = "name") =>
        LET name_field == SplitOn(fmt_out, " | ")[1]
        IN IF Tagged(fmt_file)
           THEN name_field = fmt_file["name"]
                    \o <<" (Shared Drive: ", fmt_file["sharedDriveName"][1], ")">>
           ELSE name_field = fmt_file["name"]

\* an untagged record that has a sharedDriveName, formatted with name selected
C10_Witness ==
    /\ pc = "formatted"
    /\ ~Tagged(fmt_file)
    /\ "sharedDriveName" \in DOMAIN fmt_file
    /\ fmt_fields = <<"id", "name">>
    /\ fmt_out = fmt_file["name"] \o <<" | ", "id1">>

====
